---- MODULE Spec2Model ----
(***************************************************************************)
(* Model of the on-demand schema cache of mcp-directus:                    *)
(*   - fetchSchema      (utils/fetch-schema.ts, src/unnamed/part_000)      *)
(*   - getSchemaLazy, getCollectionSchema, collectionExists                *)
(*                      (src/src/utils/lazy-schema.ts)                     *)
(*   - getGlobalDirectus / main (src/src/index.ts)                         *)
(*   - the create-collection tool (src/src/tools/collections.ts)           *)
(*   - the item tools (src/src/tools/items.ts, src/unnamed/part_002)       *)
(*   - the trigger-flow tool (src/src/utils/check-collection.ts)           *)
(*   - getTools (src/src/tools/index.ts) and the request handler           *)
(*                                                                         *)
(* The specifications share the variables:                                 *)
(*   SpecFetch     : one invocation of fetchSchema, the scan of the field  *)
(*                   list taken one record at a time;                      *)
(*   SpecMarkers   : the same on fields carrying every combination of the  *)
(*                   relation markers;                                     *)
(*   Spec          : the process-wide cache slot with several interleaved  *)
(*                   getSchemaLazy calls, each suspended at the awaits of  *)
(*                   the fetch;                                            *)
(*   SpecLive      : Spec with every awaited read settling;                *)
(*   SpecAccessors : the three accessors called one at a time, in every    *)
(*                   state of the connection, the cache and the remote;    *)
(*   SpecTools     : create-collection calls interleaved with the          *)
(*                   getSchemaLazy calls of one handler;                   *)
(*   SpecItems     : the item tools on top of the accessors;               *)
(*   SpecFlows     : the validations of trigger-flow;                      *)
(*   SpecDispatch  : getTools and the tool-call request handler.           *)
(*                                                                         *)
(* JavaScript values are tagged records so that values of different JS     *)
(* types can be compared: JNull, JStr(s), JList(q), JObj(r).  A property   *)
(* whose value is undefined is modelled as an absent key.                  *)
(***************************************************************************)
EXTENDS Integers, Sequences, FiniteSets, TLC

\* ------------------------------------------------------------------------
\* Bounds of the model (not program constants)
\* ------------------------------------------------------------------------
MaxScanLen == 3      \* longest field list scanned in SpecFetch
MaxCap == 2          \* largest configured MAX_SCHEMA_COLLECTIONS
MaxFieldCap == 2     \* largest configured MAX_SCHEMA_FIELDS_PER_COLLECTION
NumCallers == 2      \* interleaved cooperative tasks in Spec
MaxCalls == 3        \* accessor calls started in one behaviour of Spec
MaxInvalidations == 2 \* invalidations in one behaviour of Spec
MaxMarkerScan == 1    \* longest field list scanned in SpecMarkers
MaxLiveCalls == 2     \* accessor calls started in one behaviour of SpecLive
MaxLiveInvalidations == 1 \* invalidations in one behaviour of SpecLive
MaxRequests == 2      \* tool calls handled in one behaviour of SpecDispatch

\* ------------------------------------------------------------------------
\* Program constants
\* ------------------------------------------------------------------------
DefaultMaxCollections == 50
DefaultMaxFieldsPerCollection == 100

\* ------------------------------------------------------------------------
\* JavaScript values
\* ------------------------------------------------------------------------
JNull == [null |-> TRUE]
JStr(s) == [str |-> s]
JList(q) == [list |-> q]
JObj(r) == [obj |-> r]

IsNullish(v) == v = JNull

\* The empty object literal {}: no own keys.
EmptyObject == << >>

\* Names every object literal inherits from Object.prototype; obj[name] is a
\* truthy function for each of them although name is not an own key.  One
\* representative is kept.
ObjectPrototypeNames == {"constructor"}

\* JS truthiness of obj[key] for an object literal whose own values are all
\* truthy (objects, positive numbers).
HasTruthy(obj, key) == key \in DOMAIN obj \/ key \in ObjectPrototypeNames

\* Object.keys(obj): own enumerable keys only.
ObjectKeys(obj) == DOMAIN obj

\* obj with own key k set to v (obj[k] = v on an object literal).
SetKey(obj, k, v) == [x \in DOMAIN obj \cup {k} |-> IF x = k THEN v ELSE obj[x]]

\* A one-key object when present, the empty object otherwise.
Opt(k, present, v) == IF present THEN (k :> v) ELSE EmptyObject

\* ------------------------------------------------------------------------
\* stripNullUndefined (utils/strip-null-undefined.ts), modelled from the
\* specification: members that are null or undefined are removed,
\* recursively
\* ------------------------------------------------------------------------
RECURSIVE stripNullUndefined(_)
stripNullUndefined(v) ==
    IF "obj" \in DOMAIN v
    THEN JObj([k \in {x \in DOMAIN v.obj : ~IsNullish(v.obj[x])} |->
                  stripNullUndefined(v.obj[k])])
    ELSE v

\* ------------------------------------------------------------------------
\* The remote records (DirectusField, DirectusRelation)
\* ------------------------------------------------------------------------
\* field.collection of a malformed record: the property is missing.
Undefined == "undefined"

\* Collection names with the prefix 'directus_' in the universe of names.
DirectusPrefixed == {"directus_files", "directus_users", "directus_roles"}
startsWithDirectus(name) == name \in DirectusPrefixed

\* A remote field record.  special = {} stands for a missing/empty
\* meta.special (both contribute no marker).
Fld(c, f, t, sys, sp, pk, req) ==
    [collection |-> c, field |-> f, type |-> t, system |-> sys, special |-> sp,
     is_primary_key |-> pk, required |-> req,
     interface |-> IF t = "alias" THEN JNull ELSE JStr("input"),
     note |-> JNull,
     choices |-> IF req THEN <<[text |-> "One", value |-> "1"]>> ELSE << >>]

FieldRecords ==
    { Fld("a", "id", "uuid", FALSE, {}, TRUE, FALSE),
      Fld("a", "title", "string", FALSE, {}, FALSE, TRUE),
      Fld("a", "cover", "uuid", TRUE, {"file"}, FALSE, FALSE),
      Fld("b", "id", "uuid", FALSE, {}, TRUE, FALSE),
      Fld("b", "divider", "alias", FALSE, {"no-data", "alias"}, FALSE, FALSE),
      Fld("c", "blocks", "alias", FALSE, {"m2a"}, FALSE, FALSE),
      Fld("directus_roles", "name", "string", TRUE, {}, FALSE, FALSE),
      Fld("directus_files", "title", "string", FALSE, {}, FALSE, FALSE),
      Fld("constructor", "id", "uuid", FALSE, {}, TRUE, FALSE),
      Fld(Undefined, "id", "uuid", FALSE, {}, FALSE, FALSE) }

\* A remote relation record.
Rel(c, f, related, meta) ==
    [collection |-> c, field |-> f, related_collection |-> related, meta |-> meta]

RelMeta(allowed, junction) ==
    JObj([one_allowed_collections |-> allowed, junction_field |-> junction,
          sort_field |-> JNull])

RelationLists ==
    { << >>,
      << Rel("a", "cover", JStr("directus_files"), RelMeta(JNull, JNull)),
         Rel("c", "blocks", JNull, RelMeta(JList(<<"a", "b">>), JStr("item"))),
         Rel("directus_roles", "name", JStr("directus_users"), RelMeta(JNull, JNull)) >> }

\* field.meta.special of a relational field: every combination of the six
\* markers the code tests (lines 105-129), on one field of collection c,
\* without a relation record, with a record that names one related
\* collection and with a record that lists the allowed collections.
RelationMarkers == {"m2o", "file", "o2m", "m2m", "files", "m2a"}

MarkerRecords ==
    { Fld("c", "rel", "alias", FALSE, sp, FALSE, FALSE) : sp \in SUBSET RelationMarkers }

MarkerRelations ==
    { << >>,
      << Rel("c", "rel", JStr("a"), RelMeta(JNull, JNull)) >>,
      << Rel("c", "rel", JNull, RelMeta(JList(<<"a", "b">>), JStr("item"))) >> }

\* ------------------------------------------------------------------------
\* Config (MAX_SCHEMA_COLLECTIONS, MAX_SCHEMA_FIELDS_PER_COLLECTION,
\* SCHEMA_EXCLUDE_COLLECTIONS), every member optional
\* ------------------------------------------------------------------------
Cfg(mc, mf, ex) ==
    [MAX_SCHEMA_COLLECTIONS |-> mc, MAX_SCHEMA_FIELDS_PER_COLLECTION |-> mf,
     SCHEMA_EXCLUDE_COLLECTIONS |-> ex]

Configs ==
    {EmptyObject} \cup
    { Cfg(mc, mf, ex) : mc \in 0..MaxCap, mf \in 1..MaxFieldCap, ex \in {{}, {"b"}} }

\* config?.X ?? dflt
maxCollections(config) ==
    IF "MAX_SCHEMA_COLLECTIONS" \in DOMAIN config
    THEN config.MAX_SCHEMA_COLLECTIONS ELSE DefaultMaxCollections

maxFieldsPerCollection(config) ==
    IF "MAX_SCHEMA_FIELDS_PER_COLLECTION" \in DOMAIN config
    THEN config.MAX_SCHEMA_FIELDS_PER_COLLECTION ELSE DefaultMaxFieldsPerCollection

\* The exclusion list not consulted.
excludeCollectionsEmpty(config) == {}

\* new Set(config?.SCHEMA_EXCLUDE_COLLECTIONS ?? [])
excludeCollections(config) ==
    IF "SCHEMA_EXCLUDE_COLLECTIONS" \in DOMAIN config
    THEN config.SCHEMA_EXCLUDE_COLLECTIONS ELSE {}

\* ------------------------------------------------------------------------
\* fetchSchema: the relation lookup
\* ------------------------------------------------------------------------
\* relationsLookup[relation.collection][relation.field] = relation, taken in
\* list order (a later relation for the same pair replaces the earlier one).
RECURSIVE relationsLookup(_)
relationsLookup(relations) ==
    IF relations = << >> THEN EmptyObject
    ELSE LET n == Len(relations)
             relation == relations[n]
             lookup == relationsLookup(SubSeq(relations, 1, n - 1))
             inner == IF relation.collection \in DOMAIN lookup
                      THEN lookup[relation.collection] ELSE EmptyObject
         IN SetKey(lookup, relation.collection,
                   SetKey(inner, relation.field, relation))

NoRelation == [undefined |-> TRUE]

\* relationsLookup[field.collection]?.[field.field]
fieldRelationOf(lookup, field) ==
    IF field.collection \in DOMAIN lookup
       /\ field.field \in DOMAIN lookup[field.collection]
    THEN lookup[field.collection][field.field]
    ELSE NoRelation

\* The carve-out left out: every system-level field is skipped.
isFileOrUserRelationNever(fieldRelation) == FALSE

\* fieldRelation?.related_collection === 'directus_files' || ... 'directus_users'
isFileOrUserRelation(fieldRelation) ==
    /\ fieldRelation # NoRelation
    /\ \/ fieldRelation.related_collection = JStr("directus_files")
       \/ fieldRelation.related_collection = JStr("directus_users")

\* ------------------------------------------------------------------------
\* fetchSchema: the per-collection counter
\* ------------------------------------------------------------------------
\* collectionsFieldCount is an object literal too: for an inherited name the
\* value read is a function, and (fn || 0) + 1 is not a number.
NotANumber == 0 - 1

fieldCountOf(collectionsFieldCount, name) ==
    IF name \in DOMAIN collectionsFieldCount THEN collectionsFieldCount[name]
    ELSE IF name \in ObjectPrototypeNames THEN NotANumber
    ELSE 0

\* The field cap compared with > instead of >=.
fieldCapReachedLate(collectionsFieldCount, name, config) ==
    LET n == fieldCountOf(collectionsFieldCount, name)
    IN n # NotANumber /\ n > maxFieldsPerCollection(config)

\* (collectionsFieldCount[c] || 0) >= maxFieldsPerCollection; a comparison
\* with a non-number is false.
fieldCapReached(collectionsFieldCount, name, config) ==
    LET n == fieldCountOf(collectionsFieldCount, name)
    IN n # NotANumber /\ n >= maxFieldsPerCollection(config)

\* !schema[c] && totalCollections >= maxCollections
collectionCapReached(st, name, config) ==
    ~HasTruthy(st.schema, name) /\ st.totalCollections >= maxCollections(config)

\* ------------------------------------------------------------------------
\* fetchSchema: the filters, in the order of the code
\* ------------------------------------------------------------------------
\* The internal-collection filter left out.
isInternalCollectionNever(name) == FALSE

\* Line 69: startsWith('directus_') && !== 'directus_files' && !== 'directus_users'
isInternalCollection(name) ==
    /\ startsWithDirectus(name)
    /\ name # "directus_files"
    /\ name # "directus_users"

\* The outcome of the filter cascade for one record: the name of the filter
\* that skipped it, "throw" when field.collection.startsWith is applied to a
\* missing collection, or "admit".
scanVerdict(st, field, config, lookup) ==
    IF field.collection \in excludeCollections(config) THEN "excluded"
    ELSE IF collectionCapReached(st, field.collection, config) THEN "maxCollections"
    ELSE IF fieldCapReached(st.collectionsFieldCount, field.collection, config)
         THEN "maxFields"
    ELSE IF field.system /\ ~isFileOrUserRelation(fieldRelationOf(lookup, field))
         THEN "system"
    ELSE IF field.collection = Undefined THEN "throw"
    ELSE IF isInternalCollection(field.collection) THEN "directus"
    ELSE IF field.type = "alias" /\ "no-data" \in field.special THEN "no-data"
    ELSE "admit"

\* ------------------------------------------------------------------------
\* fetchSchema: the SchemaField built for an admitted record
\* ------------------------------------------------------------------------
\* relation_collection / relation_meta copied from the relation as they are.
plainRelation(fieldRelation) ==
    IF fieldRelation # NoRelation
    THEN ("relation_collection" :> fieldRelation.related_collection)
         @@ ("relation_meta" :> fieldRelation.meta)
    ELSE EmptyObject

\* fieldRelation.meta?.one_allowed_collections, stripped; undefined when meta
\* is null.
m2aRelation(fieldRelation) ==
    IF fieldRelation # NoRelation
    THEN Opt("relation_collection", ~IsNullish(fieldRelation.meta),
             IF IsNullish(fieldRelation.meta) THEN JNull
             ELSE stripNullUndefined(fieldRelation.meta.obj.one_allowed_collections))
         @@ ("relation_meta" :> stripNullUndefined(fieldRelation.meta))
    ELSE EmptyObject

relationPart(field, fieldRelation) ==
    LET special == field.special IN
    IF "m2o" \in special \/ "file" \in special
    THEN ("relation_type" :> (IF "file" \in special THEN "file" ELSE "m2o"))
         @@ plainRelation(fieldRelation)
    ELSE IF "o2m" \in special
    THEN ("relation_type" :> "o2m") @@ plainRelation(fieldRelation)
    ELSE IF "m2m" \in special \/ "files" \in special
    THEN ("relation_type" :> (IF "files" \in special THEN "files" ELSE "m2m"))
         @@ plainRelation(fieldRelation)
    ELSE IF "m2a" \in special
    THEN ("relation_type" :> "m2a") @@ m2aRelation(fieldRelation)
    ELSE EmptyObject

\* The two flags copied from the record as they are.
schemaFieldOfRawFlags(field, fieldRelation) ==
    ("type" :> field.type)
    @@ Opt("interface", ~IsNullish(field.interface),
           IF IsNullish(field.interface) THEN "" ELSE field.interface.str)
    @@ ("primary_key" :> field.is_primary_key)
    @@ ("required" :> field.required)
    @@ Opt("note", ~IsNullish(field.note),
           IF IsNullish(field.note) THEN "" ELSE field.note.str)
    @@ Opt("choices", Len(field.choices) > 0,
           [i \in 1..Len(field.choices) |->
               [text |-> field.choices[i].text, value |-> field.choices[i].value]])
    @@ relationPart(field, fieldRelation)

\* Lines 85-99, then the relation part of lines 102-138.
schemaFieldOf(field, fieldRelation) ==
    ("type" :> field.type)
    @@ Opt("interface", ~IsNullish(field.interface),
           IF IsNullish(field.interface) THEN "" ELSE field.interface.str)
    @@ Opt("primary_key", field.is_primary_key, TRUE)
    @@ Opt("required", field.required, TRUE)
    @@ Opt("note", ~IsNullish(field.note),
           IF IsNullish(field.note) THEN "" ELSE field.note.str)
    @@ Opt("choices", Len(field.choices) > 0,
           [i \in 1..Len(field.choices) |->
               [text |-> field.choices[i].text, value |-> field.choices[i].value]])
    @@ relationPart(field, fieldRelation)

\* ------------------------------------------------------------------------
\* fetchSchema: admitting a record
\* ------------------------------------------------------------------------
ScanState(schema, count, total) ==
    [schema |-> schema, collectionsFieldCount |-> count, totalCollections |-> total]

EmptyScan == ScanState(EmptyObject, EmptyObject, 0)

\* Lines 77-141.  schema[c] is created only when schema[c] is falsy; for an
\* inherited name the final write schema[c][f] = schemaField lands on the
\* inherited object and the Schema keeps no own key for it.
admitField(st, field, lookup) ==
    LET c == field.collection
        isNew == ~HasTruthy(st.schema, c)
        schema1 == IF isNew THEN SetKey(st.schema, c, EmptyObject) ELSE st.schema
        total1 == IF isNew THEN st.totalCollections + 1 ELSE st.totalCollections
        n == fieldCountOf(st.collectionsFieldCount, c)
        count1 == SetKey(st.collectionsFieldCount, c,
                         IF n = NotANumber THEN NotANumber ELSE n + 1)
        schemaField == schemaFieldOf(field, fieldRelationOf(lookup, field))
        schema2 == IF c \in DOMAIN schema1
                   THEN SetKey(schema1, c, SetKey(schema1[c], field.field, schemaField))
                   ELSE schema1
    IN ScanState(schema2, count1, total1)

\* The per-collection counter advanced before the filters are applied.
scanFieldCountsSkipped(st, field, config, lookup) ==
    IF scanVerdict(st, field, config, lookup) = "admit"
    THEN admitField(st, field, lookup)
    ELSE [st EXCEPT !.collectionsFieldCount =
                SetKey(@, field.collection,
                       fieldCountOf(@, field.collection) + 1)]

\* One iteration of the loop over fields (a skipped record leaves the state
\* as it is).
scanField(st, field, config, lookup) ==
    IF scanVerdict(st, field, config, lookup) = "admit"
    THEN admitField(st, field, lookup)
    ELSE st

\* The hard-coded Schema returned by the catch block.
FallbackSchema ==
    ("directus_files" :>
        (("id" :> (("type" :> "uuid") @@ ("primary_key" :> TRUE)))
         @@ ("filename_download" :> ("type" :> "string"))))
    @@ ("directus_users" :>
        (("id" :> (("type" :> "uuid") @@ ("primary_key" :> TRUE)))
         @@ ("email" :> ("type" :> "string"))))

\* The whole loop over a field list; Thrown when a record raises.
Thrown == [thrown |-> TRUE]

RECURSIVE scanFields(_, _, _, _)
scanFields(st, fields, config, lookup) ==
    IF fields = << >> THEN st
    ELSE IF scanVerdict(st, Head(fields), config, lookup) = "throw" THEN Thrown
    ELSE scanFields(scanField(st, Head(fields), config, lookup), Tail(fields),
                    config, lookup)

\* A catch block that keeps what the scan had accumulated.
fetchSchemaCatchKeepsPartial(partial) == partial @@ FallbackSchema

\* The catch block: whatever was accumulated is dropped and the hard-coded
\* Schema is returned.
fetchSchemaCatch(partial) == FallbackSchema

\* What a remote read resolves to: a rejected request or a list.
ReadFail == [fail |-> TRUE]
ReadOk(list) == [list |-> list]

\* fetchSchema as a function of what the two reads resolved to.
fetchSchema(fields, relations, config) ==
    IF fields = ReadFail \/ relations = ReadFail THEN fetchSchemaCatch(EmptyObject)
    ELSE LET st == scanFields(EmptyScan, fields.list, config,
                              relationsLookup(relations.list))
         IN IF st = Thrown THEN fetchSchemaCatch(EmptyObject) ELSE st.schema

\* ------------------------------------------------------------------------
\* getTools (tools/index.ts) and the tool-call request handler (index.ts)
\* ------------------------------------------------------------------------
\* A ToolDefinition is modelled by its name.  The names are those given to
\* defineTool; the field tools and users-me are defined outside the sources
\* at hand and carry the names of the README, the two prompt tools stand
\* under the names of their factories.
toolList(config) ==
    (IF config.MCP_SYSTEM_PROMPT_ENABLED = "true" THEN <<"createSystemPrompt">> ELSE << >>)
    \o << "help-token-efficient",
          "list-collections", "count-items", "get-item-summary",
          "read-collection-schema", "read-collections",
          "create-collection",
          "read-fields", "read-field", "create-field", "update-field",
          "read-relations", "read-relation", "create-relation",
          "update-relation", "delete-relation",
          "read-flows", "read-flow", "create-flow", "update-flow",
          "delete-flow", "trigger-flow",
          "read-operations", "read-operation", "create-operation",
          "update-operation", "delete-operation",
          "users-me", "read-items", "create-item", "update-item" >>
    \o (IF config.DIRECTUS_PROMPTS_COLLECTION_ENABLED = "true"
        THEN <<"getPromptsTool">> ELSE << >>)

\* Array.prototype.includes on a list of strings.
includes(list, x) == \E i \in 1..Len(list) : list[i] = x

\* The filter of getTools left out.
getToolsAll(config) == toolList(config)

\* toolList.filter((tool) => !config.DISABLE_TOOLS.includes(tool.name))
getTools(config) ==
    LET enabled(tool) == ~includes(config.DISABLE_TOOLS, tool)
    IN SelectSeq(toolList(config), enabled)

\* The configurations of the tools: DISABLE_TOOLS and the two switches.
ToolConfigs ==
    [DISABLE_TOOLS : { << >>,
                       <<"delete-item", "delete-flow", "delete-operation", "delete-relation">>,
                       <<"update-item", "create-item">>,
                       <<"read-items", "no-such-tool", "read-items">>,
                       <<"getPromptsTool", "help-token-efficient">> },
     MCP_SYSTEM_PROMPT_ENABLED : {"true", "false"},
     DIRECTUS_PROMPTS_COLLECTION_ENABLED : {"true", "false"}]

\* request.params.name of a tool call.
RequestNames ==
    {"read-items", "update-item", "delete-item", "delete-flow", "getPromptsTool",
     "help-token-efficient", "no-such-tool"}

\* availableTools.find((definition) => definition.name === name): the index
\* of the first match, 0 for undefined.
findTool(tools, name) ==
    IF includes(tools, name)
    THEN CHOOSE i \in 1..Len(tools) :
            tools[i] = name /\ \A j \in 1..(i - 1) : tools[j] # name
    ELSE 0

\* What the awaited tool handler does: it resolves with its own result (an
\* error response of its own included), or it rejects with an Error or with
\* a value that is not an Error.
HandlerOutcomes ==
    { [kind |-> "result", isError |-> FALSE, text |-> <<"ok">>],
      [kind |-> "result", isError |-> TRUE, text |-> <<"Collection not found">>],
      [kind |-> "error", isError |-> TRUE, text |-> <<"Directus client not initialized">>],
      [kind |-> "error", isError |-> TRUE, text |-> <<"Collection not found.">>],
      [kind |-> "value", isError |-> TRUE, text |-> <<"{code:500}">>] }

\* The message of the ZodError inputSchema.parse throws.
InvalidArguments == <<"invalid arguments">>

\* A CallToolResult.
ToolResult(isError, text) == [isError |-> isError, text |-> text]
NoResponse == [none |-> TRUE]

\* The rejection escapes the handler.
dispatchCatchRethrows(message) == [raised |-> message]

\* Lines 75-88: the catch block answers with the message and isError true.
dispatchCatch(message) == ToolResult(TRUE, message)

\* ------------------------------------------------------------------------
\* trigger-flow (tools/flows.ts, src/src/utils/check-collection.ts): the
\* validations of the handler
\* ------------------------------------------------------------------------
\* A field of flowDefinition.options.fields.
FlowField(name, required) == [field |-> name, required |-> required]

\* The input of the tool, as far as the handler reads it.  requireSelection
\* is "true", "false" or "undefined"; fields and data may be missing.
FlowInputs ==
    [definitionId : {"f1", "f2"},
     flowId : {"f1"},
     collections : {<<"a">>, <<"a", "b">>},
     collection : {"a", "b"},
     requireSelection : {"true", "false", "undefined"},
     keys : {<< >>, <<"1">>},
     fields : { [missing |-> TRUE],
                [list |-> <<FlowField("amount", FALSE)>>],
                [list |-> <<FlowField("amount", TRUE)>>],
                [list |-> <<FlowField("amount", TRUE), FlowField("constructor", TRUE)>>] },
     data : { [missing |-> TRUE], [obj |-> EmptyObject], [obj |-> ("amount" :> 1)] }]

\* fieldName in data: own and inherited properties.
HasProperty(obj, key) == key \in DOMAIN obj \/ key \in ObjectPrototypeNames

\* Lines 146-148: the names of the fields whose meta.required is truthy.
requiredFields(fields) ==
    LET isRequired(field) == field.required
    IN [i \in 1..Len(SelectSeq(fields, isRequired)) |->
            SelectSeq(fields, isRequired)[i].field]

\* Lines 115-155: the first validation that throws, or "passed".
triggerFlowValidation(input) ==
    IF input.definitionId # input.flowId THEN "Flow ID mismatch"
    ELSE IF ~includes(input.collections, input.collection) THEN "Invalid collection"
    ELSE IF input.requireSelection # "false" /\ Len(input.keys) = 0
         THEN "no keys were provided"
    ELSE IF /\ "list" \in DOMAIN input.fields
            /\ \E i \in 1..Len(requiredFields(input.fields.list)) :
                  \/ "missing" \in DOMAIN input.data
                  \/ ~HasProperty(input.data.obj, requiredFields(input.fields.list)[i])
         THEN "Missing required field"
    ELSE "passed"

\* ------------------------------------------------------------------------
\* State
\* ------------------------------------------------------------------------
VARIABLES
    \* one invocation of fetchSchema (SpecFetch)
    fetchPc,        \* "idle", "readFields", "readRelations", "scan", "returned"
    config,         \* the config argument
    lookup,         \* relationsLookup once the relations are read
    scan,           \* schema, collectionsFieldCount, totalCollections
    scanned,        \* the records of the field list consumed so far
    failure,        \* "none", or where the invocation failed
    result          \* the Schema returned

fetchVars == <<fetchPc, config, lookup, scan, scanned, failure, result>>

VARIABLES
    \* the process (Spec)
    mainPc,          \* "start", "authenticating", "serving", "exited"
    globalDirectus,  \* TRUE once main() has stored the client, FALSE for null
    globalConfig,    \* {} until main() stores the config
    schemaCache,     \* JNull, or Loaded(schema)
    remote,          \* index of the remote's current content in RemoteSnapshots
    pc,              \* per caller: "idle", "readFields", "readRelations"
    call,            \* per caller: its current (or last completed) call
    fetchCount,      \* fetchSchema invocations so far
    nCalls,          \* accessor calls started so far
    nInvalidations,  \* invalidations so far
    justInvalidated, \* the last operation on the cache slot was an invalidation
    consecutiveInvalidations, \* invalidations since the last other cache operation
    fallbackLoaded   \* a fetch has failed and no invalidation followed

cacheVars == <<mainPc, globalDirectus, globalConfig, schemaCache, remote, pc, call,
               fetchCount, nCalls, nInvalidations, justInvalidated,
               consecutiveInvalidations, fallbackLoaded>>

VARIABLES
    \* the tools
    create,         \* create-collection: its call in progress or last completed
    availableTools, \* main(): the result of getTools(config)
    request,        \* the tool-call request handler: its request in progress
    item,           \* an item tool: its call in progress or last completed
    flow            \* trigger-flow: its call in progress or last completed

toolVars == <<create, availableTools, request, item, flow>>

vars == <<fetchVars, cacheVars, toolVars>>

NoResult == [none |-> TRUE]

\* ------------------------------------------------------------------------
\* The cache slot and its accessors (lazy-schema.ts)
\* ------------------------------------------------------------------------
Callers == 1..NumCallers

\* Names passed to collectionExists / getCollectionSchema (any string is
\* accepted by the tools' input schemas).
Names == {"b", "constructor"}

\* What the remote holds: before and after a collection b is created.
RemoteSnapshots ==
    << [fields |-> << Fld("a", "id", "uuid", FALSE, {}, TRUE, FALSE) >>,
        relations |-> << >>],
       [fields |-> << Fld("a", "id", "uuid", FALSE, {}, TRUE, FALSE),
                      Fld("b", "id", "uuid", FALSE, {}, TRUE, FALSE) >>,
        relations |-> << >>] >>

\* The configs main() may have been started with.
CacheConfigs == {Cfg(MaxCap, MaxFieldCap, {})}

Loaded(schema) == [schema |-> schema]

\* The memo never consulted.
isCachedNever(cache) == FALSE

\* if (schemaCache)
isCached(cache) == cache # JNull

\* The check of the client left out.
clientMissingIgnored(directus) == FALSE

\* if (!directus)
clientMissing(directus) == ~directus

\* The slot assigned something else than the awaited result.
storeFetchedDropsResult(schema) == Loaded(EmptyObject)

\* schemaCache = await fetchSchema(directus, config)
storeFetched(schema) == Loaded(schema)

\* return schemaCache
returnCached(cache) == cache.schema

\* An invalidation that leaves the slot as it is.
invalidateSchemaCacheKeeps == schemaCache

\* invalidateSchemaCache(): the slot is cleared (modelled from the
\* specification: lazy-schema.ts does not define it, collections.ts calls it).
invalidateSchemaCache == JNull

RetNone == [none |-> TRUE]
RetValue(v) == [value |-> v]
RetError(e) == [error |-> e]

NotInitialized == [message |-> "Directus client not initialized"]
NotFound(name, available) ==
    [message |-> "not found in schema", collection |-> name, available |-> available]

\* The value of schema[name] for an inherited name.
Inherited(name) == [inherited |-> name]

\* !!schema[collectionName]
collectionExists(schema, name) == HasTruthy(schema, name)

\* if (!schema[name]) throw ...Object.keys(schema)...; return schema[name]
getCollectionSchema(schema, name) ==
    IF ~HasTruthy(schema, name) THEN RetError(NotFound(name, ObjectKeys(schema)))
    ELSE IF name \in DOMAIN schema THEN RetValue(schema[name])
    ELSE RetValue(Inherited(name))

\* What an accessor returns once getSchemaLazy has resolved to schema.
accessorResult(op, name, schema) ==
    IF op = "getSchemaLazy" THEN RetValue(schema)
    ELSE IF op = "collectionExists" THEN RetValue(collectionExists(schema, name))
    ELSE getCollectionSchema(schema, name)

Ops == {"getSchemaLazy", "collectionExists", "getCollectionSchema"}

NoPrev == [none |-> TRUE]

NoCall ==
    [op |-> "none", name |-> "", startedEmpty |-> FALSE, clientAtStart |-> FALSE,
     afterInvalidate |-> FALSE, afterFailure |-> FALSE, fetched |-> FALSE,
     invalidated |-> FALSE, prev |-> NoPrev, fieldsRead |-> ReadFail,
     fetchResult |-> JNull, resolved |-> JNull, ret |-> RetNone]

\* The caller's previous call, as far as a following getSchemaLazy call is
\* concerned: a getSchemaLazy call that returned, with no invalidation since
\* it started.
prevOf(c) ==
    IF /\ call[c].op = "getSchemaLazy"
       /\ "value" \in DOMAIN call[c].ret
       /\ ~call[c].invalidated
    THEN [ret |-> call[c].ret, fetched |-> call[c].fetched,
          startedEmpty |-> call[c].startedEmpty]
    ELSE NoPrev

NewCall(c, op, name) ==
    [NoCall EXCEPT !.op = op, !.name = name,
                   !.startedEmpty = ~isCached(schemaCache),
                   !.clientAtStart = globalDirectus,
                   !.afterInvalidate = justInvalidated,
                   !.afterFailure = fallbackLoaded,
                   !.prev = prevOf(c)]

\* ------------------------------------------------------------------------
\* The create-collection tool (tools/collections.ts)
\* ------------------------------------------------------------------------
\* The part of the tool's input its control flow depends on: is_folder, and
\* whether fields is a non-empty list.
CreateInputs == [is_folder : BOOLEAN, hasFields : BOOLEAN]

NoCreate ==
    [pc |-> "idle", input |-> [is_folder |-> FALSE, hasFields |-> FALSE],
     outcome |-> "none", succeeded |-> {}]

\* if (input.is_folder && input.fields && input.fields.length > 0) throw
createCollectionValid(input) == ~(input.is_folder /\ input.hasFields)

\* The path taken after validation.
createCollectionPath(input) == IF input.is_folder THEN "folder" ELSE "collection"

\* invalidateSchemaCache() follows the awaited createCollection request on
\* the folder path (line 108) and on the collection path (line 192).
invalidatesAfterCreate(path) == path \in {"folder", "collection"}

\* ------------------------------------------------------------------------
\* The tool calls at rest
\* ------------------------------------------------------------------------
NoRequest ==
    [pc |-> "idle", name |-> "", found |-> FALSE, argsOk |-> FALSE,
     outcome |-> NoResponse, executed |-> {}, response |-> NoResponse,
     count |-> 0]

NoItem ==
    [pc |-> "idle", tool |-> "", collection |-> "", sent |-> FALSE,
     response |-> "none"]
NoFlow == [pc |-> "idle", called |-> FALSE, sent |-> FALSE, response |-> "none"]

\* No tool call has been made.
ToolsIdle ==
    /\ create = NoCreate
    /\ availableTools = << >>
    /\ request = NoRequest
    /\ item = NoItem
    /\ flow = NoFlow

Init ==
    /\ mainPc = "start"
    /\ globalDirectus = FALSE
    /\ globalConfig = EmptyObject
    /\ schemaCache = JNull
    /\ remote = 1
    /\ pc = [c \in Callers |-> "idle"]
    /\ call = [c \in Callers |-> NoCall]
    /\ fetchCount = 0
    /\ nCalls = 0
    /\ nInvalidations = 0
    /\ justInvalidated = FALSE
    /\ consecutiveInvalidations = 0
    /\ fallbackLoaded = FALSE
    /\ ToolsIdle
    /\ fetchPc = "idle"
    /\ config = EmptyObject
    /\ lookup = EmptyObject
    /\ scan = EmptyScan
    /\ scanned = << >>
    /\ failure = "none"
    /\ result = NoResult

Running == mainPc # "exited"

\* main(): globalConfig = config, then await authenticateDirectus.
MainConfig ==
    /\ mainPc = "start"
    /\ \E cfg \in CacheConfigs : globalConfig' = cfg
    /\ mainPc' = "authenticating"
    /\ UNCHANGED <<globalDirectus, schemaCache, remote, pc, call, fetchCount,
                   nCalls, nInvalidations, justInvalidated,
                   consecutiveInvalidations, fallbackLoaded>>
    /\ UNCHANGED fetchVars
    /\ UNCHANGED toolVars

\* main(): authentication succeeded, globalDirectus = directus.
MainAuthenticated ==
    /\ mainPc = "authenticating"
    /\ globalDirectus' = TRUE
    /\ mainPc' = "serving"
    /\ UNCHANGED <<globalConfig, schemaCache, remote, pc, call, fetchCount,
                   nCalls, nInvalidations, justInvalidated,
                   consecutiveInvalidations, fallbackLoaded>>
    /\ UNCHANGED fetchVars
    /\ UNCHANGED toolVars

\* main(): authentication failed, the process exits.
MainFails ==
    /\ mainPc = "authenticating"
    /\ mainPc' = "exited"
    /\ UNCHANGED <<globalDirectus, globalConfig, schemaCache, remote, pc, call,
                   fetchCount, nCalls, nInvalidations, justInvalidated,
                   consecutiveInvalidations,
                   fallbackLoaded>>
    /\ UNCHANGED fetchVars
    /\ UNCHANGED toolVars

\* The accessor op is called with name: getSchemaLazy up to its first await.
BeginCall(c, op, name) ==
    /\ Running
    /\ pc[c] = "idle"
    /\ nCalls < MaxCalls
    /\ nCalls' = nCalls + 1
    /\ justInvalidated' = FALSE
    /\ consecutiveInvalidations' = 0
    /\ LET new == NewCall(c, op, name) IN
        IF isCached(schemaCache)
        THEN /\ call' = [call EXCEPT ![c] =
                    [new EXCEPT !.resolved = Loaded(returnCached(schemaCache)),
                                !.ret = accessorResult(op, name, returnCached(schemaCache))]]
             /\ UNCHANGED <<pc, fetchCount>>
        ELSE IF clientMissing(globalDirectus)
        THEN /\ call' = [call EXCEPT ![c] = [new EXCEPT !.ret = RetError(NotInitialized)]]
             /\ UNCHANGED <<pc, fetchCount>>
        ELSE /\ fetchCount' = fetchCount + 1
             /\ call' = [call EXCEPT ![c] = [new EXCEPT !.fetched = TRUE]]
             /\ pc' = [pc EXCEPT ![c] = "readFields"]
    /\ UNCHANGED <<mainPc, globalDirectus, globalConfig, schemaCache, remote,
                   nInvalidations, fallbackLoaded>>
    /\ UNCHANGED fetchVars

\* An accessor call made on its own.
StartCall(c, op, name) == BeginCall(c, op, name) /\ UNCHANGED toolVars

\* The caller stays suspended when its fetch has resolved.
ResumeNever(c, schema, failed) ==
    LET cache == storeFetched(schema) IN
    /\ schemaCache' = cache
    /\ call' = [call EXCEPT ![c].fetchResult = Loaded(schema),
                            ![c].fieldsRead = ReadFail,
                            ![c].resolved = Loaded(returnCached(cache)),
                            ![c].ret = accessorResult(call[c].op, call[c].name,
                                                      returnCached(cache))]
    /\ pc' = pc
    /\ justInvalidated' = FALSE
    /\ consecutiveInvalidations' = 0
    /\ fallbackLoaded' = IF failed /\ ~call[c].invalidated THEN TRUE ELSE fallbackLoaded

\* fetchSchema has resolved to schema: schemaCache = ...; return schemaCache.
Resume(c, schema, failed) ==
    LET cache == storeFetched(schema) IN
    /\ schemaCache' = cache
    /\ call' = [call EXCEPT ![c].fetchResult = Loaded(schema),
                            ![c].fieldsRead = ReadFail,
                            ![c].resolved = Loaded(returnCached(cache)),
                            ![c].ret = accessorResult(call[c].op, call[c].name,
                                                      returnCached(cache))]
    /\ pc' = [pc EXCEPT ![c] = "idle"]
    /\ justInvalidated' = FALSE
    /\ consecutiveInvalidations' = 0
    /\ fallbackLoaded' = IF failed /\ ~call[c].invalidated THEN TRUE ELSE fallbackLoaded

\* readFields resolves with the remote's fields.
FieldsRead(c) ==
    /\ pc[c] = "readFields"
    /\ call' = [call EXCEPT ![c].fieldsRead = ReadOk(RemoteSnapshots[remote].fields)]
    /\ pc' = [pc EXCEPT ![c] = "readRelations"]
    /\ UNCHANGED <<mainPc, globalDirectus, globalConfig, schemaCache, remote,
                   fetchCount, nCalls, nInvalidations, justInvalidated,
                   consecutiveInvalidations,
                   fallbackLoaded>>
    /\ UNCHANGED fetchVars
    /\ UNCHANGED toolVars

\* readFields rejects: fetchSchema resolves to the fallback.
FieldsFail(c) ==
    /\ pc[c] = "readFields"
    /\ Resume(c, fetchSchema(ReadFail, ReadFail, globalConfig), TRUE)
    /\ UNCHANGED <<mainPc, globalDirectus, globalConfig, remote, fetchCount,
                   nCalls, nInvalidations>>
    /\ UNCHANGED fetchVars
    /\ UNCHANGED toolVars

\* readRelations resolves: the scan runs to its end without suspending.
RelationsRead(c) ==
    /\ pc[c] = "readRelations"
    /\ Resume(c, fetchSchema(call[c].fieldsRead,
                             ReadOk(RemoteSnapshots[remote].relations),
                             globalConfig), FALSE)
    /\ UNCHANGED <<mainPc, globalDirectus, globalConfig, remote, fetchCount,
                   nCalls, nInvalidations>>
    /\ UNCHANGED fetchVars
    /\ UNCHANGED toolVars

\* readRelations rejects.
RelationsFail(c) ==
    /\ pc[c] = "readRelations"
    /\ Resume(c, fetchSchema(call[c].fieldsRead, ReadFail, globalConfig), TRUE)
    /\ UNCHANGED <<mainPc, globalDirectus, globalConfig, remote, fetchCount,
                   nCalls, nInvalidations>>
    /\ UNCHANGED fetchVars
    /\ UNCHANGED toolVars

\* invalidateSchemaCache() is called (by a tool that changed the remote
\* structure).
Invalidate ==
    /\ Running
    /\ nInvalidations < MaxInvalidations
    /\ nInvalidations' = nInvalidations + 1
    /\ schemaCache' = invalidateSchemaCache
    /\ call' = [c \in Callers |-> [call[c] EXCEPT !.invalidated = TRUE]]
    /\ justInvalidated' = TRUE
    /\ consecutiveInvalidations' = consecutiveInvalidations + 1
    /\ fallbackLoaded' = FALSE
    /\ UNCHANGED <<mainPc, globalDirectus, globalConfig, remote, pc, fetchCount,
                   nCalls>>
    /\ UNCHANGED fetchVars
    /\ UNCHANGED toolVars

\* The remote's collections change (a collection is created).
RemoteChanges ==
    /\ Running
    /\ remote < Len(RemoteSnapshots)
    /\ remote' = remote + 1
    /\ UNCHANGED <<mainPc, globalDirectus, globalConfig, schemaCache, pc, call,
                   fetchCount, nCalls, nInvalidations, justInvalidated,
                   consecutiveInvalidations,
                   fallbackLoaded>>
    /\ UNCHANGED fetchVars
    /\ UNCHANGED toolVars

Next ==
    \/ MainConfig
    \/ MainAuthenticated
    \/ MainFails
    \/ \E c \in Callers : StartCall(c, "getSchemaLazy", "")
    \/ \E c \in Callers : FieldsRead(c)
    \/ \E c \in Callers : FieldsFail(c)
    \/ \E c \in Callers : RelationsRead(c)
    \/ \E c \in Callers : RelationsFail(c)
    \/ Invalidate
    \/ RemoteChanges

\* Interleaved getSchemaLazy() calls.
Spec == Init /\ [][Next]_vars

\* Each remote read a fetch awaits eventually resolves or rejects
\* (fetch-schema.ts lines 17-18); nothing else is assumed about scheduling.
ReadsSettle ==
    \A c \in Callers :
        /\ WF_vars(FieldsRead(c) \/ FieldsFail(c))
        /\ WF_vars(RelationsRead(c) \/ RelationsFail(c))

\* getSchemaLazy() and invalidateSchemaCache() calls as in Spec, fewer of
\* them and on an unchanging remote.
LiveStartCall(c) == nCalls < MaxLiveCalls /\ StartCall(c, "getSchemaLazy", "")

LiveInvalidate == nInvalidations < MaxLiveInvalidations /\ Invalidate

LiveNext ==
    \/ MainConfig
    \/ MainAuthenticated
    \/ MainFails
    \/ \E c \in Callers : LiveStartCall(c)
    \/ \E c \in Callers : FieldsRead(c)
    \/ \E c \in Callers : FieldsFail(c)
    \/ \E c \in Callers : RelationsRead(c)
    \/ \E c \in Callers : RelationsFail(c)
    \/ LiveInvalidate

\* Interleaved calls with every awaited read settling.
SpecLive == Init /\ [][LiveNext]_vars /\ ReadsSettle

\* ------------------------------------------------------------------------
\* SpecAccessors: the three accessors, called one at a time
\* ------------------------------------------------------------------------
\* A tool handler awaits each accessor before it calls the next one.
Handler == 1

\* The names an accessor is called with.
NamesOf(op) == IF op = "getSchemaLazy" THEN {""} ELSE Names

AccessorsNext ==
    \/ MainConfig
    \/ MainAuthenticated
    \/ MainFails
    \/ \E op \in Ops : \E name \in NamesOf(op) : StartCall(Handler, op, name)
    \/ FieldsRead(Handler)
    \/ FieldsFail(Handler)
    \/ RelationsRead(Handler)
    \/ RelationsFail(Handler)
    \/ Invalidate
    \/ RemoteChanges

SpecAccessors == Init /\ [][AccessorsNext]_vars

\* ------------------------------------------------------------------------
\* SpecTools: the create-collection tool next to getSchemaLazy() calls
\* ------------------------------------------------------------------------
\* The handler up to its await: validation, then the createCollection
\* request is sent; a validation error goes to the catch block.
CreateCollectionCalled(input) ==
    /\ mainPc = "serving"
    /\ create.pc = "idle"
    /\ nInvalidations < MaxInvalidations
    /\ create' = IF createCollectionValid(input)
                 THEN [create EXCEPT !.pc = "awaiting", !.input = input,
                                     !.outcome = "none"]
                 ELSE [create EXCEPT !.input = input, !.outcome = "invalid"]
    /\ UNCHANGED cacheVars
    /\ UNCHANGED <<availableTools, request, item, flow>>
    /\ UNCHANGED fetchVars

\* The request resolves: the remote holds the new collection (a folder has
\* no fields), the cache is invalidated, the success response is returned.
CreateCollectionResolves ==
    /\ create.pc = "awaiting"
    /\ create.input.is_folder \/ remote < Len(RemoteSnapshots)
    /\ remote' = IF create.input.is_folder THEN remote ELSE remote + 1
    /\ LET path == createCollectionPath(create.input) IN
        /\ create' = [create EXCEPT !.pc = "idle", !.outcome = "created",
                                    !.succeeded = @ \cup {path}]
        /\ IF invalidatesAfterCreate(path)
           THEN /\ nInvalidations' = nInvalidations + 1
                /\ schemaCache' = invalidateSchemaCache
                /\ call' = [c \in Callers |-> [call[c] EXCEPT !.invalidated = TRUE]]
                /\ justInvalidated' = TRUE
                /\ consecutiveInvalidations' = consecutiveInvalidations + 1
                /\ fallbackLoaded' = FALSE
           ELSE UNCHANGED <<nInvalidations, schemaCache, call, justInvalidated,
                            consecutiveInvalidations, fallbackLoaded>>
    /\ UNCHANGED <<mainPc, globalDirectus, globalConfig, pc, fetchCount, nCalls>>
    /\ UNCHANGED <<availableTools, request, item, flow>>
    /\ UNCHANGED fetchVars

\* The request rejects: the catch block returns the error response.
CreateCollectionRejects ==
    /\ create.pc = "awaiting"
    /\ create' = [create EXCEPT !.pc = "idle", !.outcome = "failed"]
    /\ UNCHANGED cacheVars
    /\ UNCHANGED <<availableTools, request, item, flow>>
    /\ UNCHANGED fetchVars

ToolsNext ==
    \/ MainConfig
    \/ MainAuthenticated
    \/ MainFails
    \/ StartCall(Handler, "getSchemaLazy", "")
    \/ FieldsRead(Handler)
    \/ FieldsFail(Handler)
    \/ RelationsRead(Handler)
    \/ RelationsFail(Handler)
    \/ \E input \in CreateInputs : CreateCollectionCalled(input)
    \/ CreateCollectionResolves
    \/ CreateCollectionRejects

SpecTools == Init /\ [][ToolsNext]_vars

\* ------------------------------------------------------------------------
\* SpecItems: the item tools (tools/items.ts, tools/pagination.ts), one
\* call at a time, on the cache of Spec
\* ------------------------------------------------------------------------
ItemTools == {"read-items", "create-item", "update-item", "count-items",
              "get-item-summary"}

\* create-item and update-item read the collection's schema for the primary
\* key before they send their request.
readsPrimaryKey(tool) == tool \in {"create-item", "update-item"}

\* The collection argument of an item tool.
ItemCollections == Names \cup {"a"}

\* The handler up to its first await: collectionExists(collection).
ItemToolCalled(tool, collection) ==
    /\ mainPc = "serving"
    /\ item.pc = "idle"
    /\ BeginCall(Handler, "collectionExists", collection)
    /\ item' = [pc |-> "exists", tool |-> tool, collection |-> collection,
                sent |-> FALSE, response |-> "none"]
    /\ UNCHANGED <<create, availableTools, request, flow>>

\* collectionExists has settled: an error or false ends in the catch block;
\* otherwise create-item and update-item go on to getCollectionSchema and
\* the other tools send their request.
ItemExistsSettled ==
    /\ item.pc = "exists"
    /\ pc[Handler] = "idle"
    /\ LET ret == call[Handler].ret IN
        IF "error" \in DOMAIN ret \/ ~ret.value
        THEN /\ item' = [item EXCEPT !.pc = "idle", !.response = "error"]
             /\ UNCHANGED cacheVars
             /\ UNCHANGED fetchVars
        ELSE IF readsPrimaryKey(item.tool)
        THEN /\ BeginCall(Handler, "getCollectionSchema", item.collection)
             /\ item' = [item EXCEPT !.pc = "schema"]
        ELSE /\ item' = [item EXCEPT !.pc = "remote", !.sent = TRUE]
             /\ UNCHANGED cacheVars
             /\ UNCHANGED fetchVars
    /\ UNCHANGED <<create, availableTools, request, flow>>

\* getCollectionSchema has settled: an error ends in the catch block;
\* otherwise the primary key is looked up among Object.keys of the value
\* (none for an inherited function) and the request is sent.
ItemSchemaSettled ==
    /\ item.pc = "schema"
    /\ pc[Handler] = "idle"
    /\ item' = IF "error" \in DOMAIN call[Handler].ret
               THEN [item EXCEPT !.pc = "idle", !.response = "error"]
               ELSE [item EXCEPT !.pc = "remote", !.sent = TRUE]
    /\ UNCHANGED <<create, availableTools, request, flow>>
    /\ UNCHANGED cacheVars
    /\ UNCHANGED fetchVars

\* The item request resolves or rejects.
ItemRemoteSettles(ok) ==
    /\ item.pc = "remote"
    /\ item' = [item EXCEPT !.pc = "idle",
                            !.response = IF ok THEN "ok" ELSE "error"]
    /\ UNCHANGED <<create, availableTools, request, flow>>
    /\ UNCHANGED cacheVars
    /\ UNCHANGED fetchVars

ItemsNext ==
    \/ MainConfig
    \/ MainAuthenticated
    \/ MainFails
    \/ \E tool \in ItemTools, collection \in ItemCollections :
          ItemToolCalled(tool, collection)
    \/ FieldsRead(Handler)
    \/ FieldsFail(Handler)
    \/ RelationsRead(Handler)
    \/ RelationsFail(Handler)
    \/ ItemExistsSettled
    \/ ItemSchemaSettled
    \/ \E ok \in BOOLEAN : ItemRemoteSettles(ok)

SpecItems == Init /\ [][ItemsNext]_vars

\* ------------------------------------------------------------------------
\* SpecFlows: the trigger-flow tool, one call at a time
\* ------------------------------------------------------------------------
\* The handler up to its await: a failed validation ends in the catch
\* block, otherwise the trigger request is sent.
TriggerFlowCalled(input) ==
    /\ mainPc = "serving"
    /\ flow.pc = "idle"
    /\ flow' = IF triggerFlowValidation(input) = "passed"
               THEN [pc |-> "remote", called |-> TRUE, input |-> input,
                     sent |-> TRUE, response |-> "none"]
               ELSE [pc |-> "idle", called |-> TRUE, input |-> input,
                     sent |-> FALSE, response |-> "error"]
    /\ UNCHANGED <<create, availableTools, request, item>>
    /\ UNCHANGED cacheVars
    /\ UNCHANGED fetchVars

\* The trigger request resolves or rejects.
TriggerFlowSettles(ok) ==
    /\ flow.pc = "remote"
    /\ flow' = [flow EXCEPT !.pc = "idle",
                            !.response = IF ok THEN "ok" ELSE "error"]
    /\ UNCHANGED <<create, availableTools, request, item>>
    /\ UNCHANGED cacheVars
    /\ UNCHANGED fetchVars

FlowsNext ==
    \/ MainConfig
    \/ MainAuthenticated
    \/ MainFails
    \/ \E input \in FlowInputs : TriggerFlowCalled(input)
    \/ \E ok \in BOOLEAN : TriggerFlowSettles(ok)

SpecFlows == Init /\ [][FlowsNext]_vars

\* ------------------------------------------------------------------------
\* SpecDispatch: main() has built availableTools (index.ts line 35); tool
\* calls arrive one at a time
\* ------------------------------------------------------------------------
DispatchInit ==
    /\ mainPc = "serving"
    /\ globalDirectus = TRUE
    /\ globalConfig \in ToolConfigs
    /\ availableTools = getTools(globalConfig)
    /\ request = NoRequest
    /\ create = NoCreate
    /\ item = NoItem
    /\ flow = NoFlow
    /\ schemaCache = JNull
    /\ remote = 1
    /\ pc = [c \in Callers |-> "idle"]
    /\ call = [c \in Callers |-> NoCall]
    /\ fetchCount = 0
    /\ nCalls = 0
    /\ nInvalidations = 0
    /\ justInvalidated = FALSE
    /\ consecutiveInvalidations = 0
    /\ fallbackLoaded = FALSE
    /\ fetchPc = "idle"
    /\ config = EmptyObject
    /\ lookup = EmptyObject
    /\ scan = EmptyScan
    /\ scanned = << >>
    /\ failure = "none"
    /\ result = NoResult

\* Lines 52-69: the tool is looked up, its arguments are parsed and its
\* handler is invoked; an unknown tool or rejected arguments throw into the
\* catch block.
CallTool(name, argsOk) ==
    /\ request.pc = "idle"
    /\ request.count < MaxRequests
    /\ LET tool == findTool(availableTools, name)
           started == [request EXCEPT !.name = name, !.found = tool # 0,
                                      !.argsOk = argsOk, !.outcome = NoResponse,
                                      !.count = @ + 1]
       IN request' =
            IF tool = 0
            THEN [started EXCEPT !.response = dispatchCatch(<<"Unknown tool: ", name>>)]
            ELSE IF ~argsOk
            THEN [started EXCEPT !.response = dispatchCatch(InvalidArguments)]
            ELSE [started EXCEPT !.pc = "running", !.response = NoResponse,
                                 !.executed = @ \cup {availableTools[tool]}]
    /\ UNCHANGED <<create, availableTools, item, flow>>
    /\ UNCHANGED cacheVars
    /\ UNCHANGED fetchVars

\* Lines 69-88: the awaited handler settles; its result is returned, a
\* rejection is answered by the catch block.
HandlerSettles(outcome) ==
    /\ request.pc = "running"
    /\ request' = [request EXCEPT
                     !.pc = "idle",
                     !.outcome = outcome,
                     !.response = IF outcome.kind = "result"
                                  THEN ToolResult(outcome.isError, outcome.text)
                                  ELSE dispatchCatch(outcome.text)]
    /\ UNCHANGED <<create, availableTools, item, flow>>
    /\ UNCHANGED cacheVars
    /\ UNCHANGED fetchVars

DispatchNext ==
    \/ \E name \in RequestNames, argsOk \in BOOLEAN : CallTool(name, argsOk)
    \/ \E outcome \in HandlerOutcomes : HandlerSettles(outcome)

SpecDispatch == DispatchInit /\ [][DispatchNext]_vars

\* ------------------------------------------------------------------------
\* SpecFetch: one invocation of fetchSchema, one record per step
\* ------------------------------------------------------------------------
FetchInit ==
    /\ ToolsIdle
    /\ fetchPc = "readFields"
    /\ config \in Configs
    /\ lookup = EmptyObject
    /\ scan = EmptyScan
    /\ scanned = << >>
    /\ failure = "none"
    /\ result = NoResult
    /\ mainPc = "serving"
    /\ globalDirectus = TRUE
    /\ globalConfig = config
    /\ schemaCache = JNull
    /\ remote = 1
    /\ pc = [c \in Callers |-> "idle"]
    /\ call = [c \in Callers |-> NoCall]
    /\ fetchCount = 1
    /\ nCalls = 0
    /\ nInvalidations = 0
    /\ justInvalidated = FALSE
    /\ consecutiveInvalidations = 0
    /\ fallbackLoaded = FALSE

\* await directus.request(readFields()) rejects: the catch block returns.
ReadFieldsFails ==
    /\ fetchPc = "readFields"
    /\ fetchPc' = "returned"
    /\ failure' = "readFields"
    /\ result' = fetchSchemaCatch(scan.schema)
    /\ UNCHANGED <<config, lookup, scan, scanned>>
    /\ UNCHANGED cacheVars
    /\ UNCHANGED toolVars

ReadFieldsOk ==
    /\ fetchPc = "readFields"
    /\ fetchPc' = "readRelations"
    /\ UNCHANGED <<config, lookup, scan, scanned, failure, result>>
    /\ UNCHANGED cacheVars
    /\ UNCHANGED toolVars

\* await directus.request(readRelations()) rejects.
ReadRelationsFails ==
    /\ fetchPc = "readRelations"
    /\ fetchPc' = "returned"
    /\ failure' = "readRelations"
    /\ result' = fetchSchemaCatch(scan.schema)
    /\ UNCHANGED <<config, lookup, scan, scanned>>
    /\ UNCHANGED cacheVars
    /\ UNCHANGED toolVars

\* The relations arrive; the lookup is built and the scan starts.
ReadRelationsFrom(lists) ==
    /\ fetchPc = "readRelations"
    /\ \E relations \in lists : lookup' = relationsLookup(relations)
    /\ fetchPc' = "scan"
    /\ UNCHANGED <<config, scan, scanned, failure, result>>
    /\ UNCHANGED cacheVars
    /\ UNCHANGED toolVars

ReadRelationsOk == ReadRelationsFrom(RelationLists)

\* One iteration of for (const field of fields).
ScanFieldFrom(records, maxLen) ==
    /\ fetchPc = "scan"
    /\ Len(scanned) < maxLen
    /\ \E field \in records :
        /\ scanned' = Append(scanned, field)
        /\ IF scanVerdict(scan, field, config, lookup) = "throw"
           THEN /\ fetchPc' = "returned"
                /\ failure' = "scan"
                /\ result' = fetchSchemaCatch(scan.schema)
                /\ scan' = scan
           ELSE /\ scan' = scanField(scan, field, config, lookup)
                /\ UNCHANGED <<fetchPc, failure, result>>
    /\ UNCHANGED <<config, lookup>>
    /\ UNCHANGED cacheVars
    /\ UNCHANGED toolVars

ScanField == ScanFieldFrom(FieldRecords, MaxScanLen)

\* The field list is exhausted: return schema.
ScanEnd ==
    /\ fetchPc = "scan"
    /\ fetchPc' = "returned"
    /\ result' = scan.schema
    /\ UNCHANGED <<config, lookup, scan, scanned, failure>>
    /\ UNCHANGED cacheVars
    /\ UNCHANGED toolVars

FetchNext ==
    \/ ReadFieldsFails
    \/ ReadFieldsOk
    \/ ReadRelationsFails
    \/ ReadRelationsOk
    \/ ScanField
    \/ ScanEnd

SpecFetch == FetchInit /\ [][FetchNext]_vars

\* ------------------------------------------------------------------------
\* SpecMarkers: one invocation of fetchSchema on a remote whose fields carry
\* every combination of the relation markers (lines 104-138), with and
\* without a relation record, under the default configuration
\* ------------------------------------------------------------------------
MarkersInit == FetchInit /\ config = EmptyObject

MarkerRelationsRead == ReadRelationsFrom(MarkerRelations)

MarkerScanField == ScanFieldFrom(MarkerRecords, MaxMarkerScan)

MarkersNext ==
    \/ ReadFieldsFails
    \/ ReadFieldsOk
    \/ ReadRelationsFails
    \/ MarkerRelationsRead
    \/ MarkerScanField
    \/ ScanEnd

SpecMarkers == MarkersInit /\ [][MarkersNext]_vars

\* ========================================================================
\* Properties
\* ========================================================================

\* --- helpers of the properties of the scan -------------------------------

\* The record survives every filter other than the two caps (exclusion,
\* system field, system collection, UI-only), whatever was scanned before.
passesFilters(field) ==
    scanVerdict(EmptyScan, field,
                [SCHEMA_EXCLUDE_COLLECTIONS |-> excludeCollections(config)],
                lookup) = "admit"

\* The distinct collections of the records of seq that pass the filters, in
\* the order of their first such record.
RECURSIVE candidateCollections(_)
candidateCollections(seq) ==
    IF seq = << >> THEN << >>
    ELSE LET n == Len(seq)
             before == candidateCollections(SubSeq(seq, 1, n - 1))
             c == seq[n].collection
         IN IF passesFilters(seq[n]) /\ \A i \in 1..Len(before) : before[i] # c
            THEN Append(before, c)
            ELSE before

FirstN(seq, n) == {seq[i] : i \in 1..(IF Len(seq) < n THEN Len(seq) ELSE n)}

\* The scan is running or has returned its schema.
ScanSucceeding == fetchPc \in {"scan", "returned"} /\ failure = "none"

\* --- helpers of the properties of the cache -----------------------------

InFlight(c) == pc[c] # "idle"
Completed(c) == pc[c] = "idle" /\ call[c].op # "none"
Returned(c) == Completed(c) /\ "value" \in DOMAIN call[c].ret
Raised(c) == Completed(c) /\ "error" \in DOMAIN call[c].ret

\* The call of c started against an Empty cache with the connection
\* initialized, and no invalidation has happened since it started.
FirstCaller(c) ==
    /\ call[c].op # "none"
    /\ call[c].startedEmpty
    /\ call[c].clientAtStart
    /\ ~call[c].invalidated

\* --- C1 ------------------------------------------------------------------
\* C1: calls started against an Empty cache that interleave at the fetch,
\* with no invalidation in between, issue one fetch in all and receive the
\* same Schema.
C1_Coalescing ==
    \A c, d \in Callers :
        (c # d /\ FirstCaller(c) /\ FirstCaller(d)) =>
            /\ ~(call[c].fetched /\ call[d].fetched)
            /\ (Returned(c) /\ Returned(d)) => call[c].resolved = call[d].resolved

\* --- C2 ------------------------------------------------------------------
\* C2: a getSchema() call started after an earlier getSchema() call of the
\* same caller returned, with no invalidation since the earlier call
\* started, returns the same Schema, issues no fetch of its own, and the
\* earlier call issued the only fetch if it started against an Empty cache.
C2_Memoized ==
    \A c \in Callers :
        (/\ Returned(c)
         /\ call[c].op = "getSchemaLazy"
         /\ call[c].prev # NoPrev
         /\ ~call[c].invalidated)
        => /\ call[c].ret = call[c].prev.ret
           /\ ~call[c].fetched
           /\ call[c].prev.startedEmpty => call[c].prev.fetched

\* --- C3 ------------------------------------------------------------------
\* C3: with the connection initialized, a getSchema() call that directly
\* follows an invalidate() (no other operation on the cache slot in between,
\* whatever calls came before) returns, issues a fetch of its own, and
\* returns what that fetch resolved to.
C3_InvalidateRefetches ==
    \A c \in Callers :
        (/\ Completed(c)
         /\ call[c].op = "getSchemaLazy"
         /\ call[c].afterInvalidate
         /\ call[c].clientAtStart)
        => /\ Returned(c)
           /\ call[c].fetched
           /\ call[c].ret = RetValue(call[c].fetchResult.schema)

\* A call after the invalidation returned a Schema with collection b while
\* the memo of before the invalidation, returned to another caller, had
\* none.
C3_Witness ==
    \E c, d \in Callers :
        /\ c # d
        /\ Returned(c)
        /\ call[c].op = "getSchemaLazy"
        /\ call[c].afterInvalidate
        /\ "b" \in ObjectKeys(call[c].ret.value)
        /\ Returned(d)
        /\ call[d].op = "getSchemaLazy"
        /\ call[d].invalidated
        /\ "b" \notin ObjectKeys(call[d].ret.value)

\* --- C4 ------------------------------------------------------------------
\* C4: collectionExists(name) returns true exactly when name is a key of the
\* Schema that getSchema() resolved to for that call.
C4_ExistsIffKey ==
    \A c \in Callers :
        (Returned(c) /\ call[c].op = "collectionExists") =>
            call[c].ret.value = (call[c].name \in ObjectKeys(call[c].resolved.schema))

\* --- C5 ------------------------------------------------------------------
\* C5: when a remote read fails or a record raises during the scan, the
\* Fetcher returns (it does not raise) a Schema with exactly the collections
\* directus_files {id, filename_download} and directus_users {id, email},
\* and nothing of what was accumulated before the failure.
C5_FallbackOnFailure ==
    (fetchPc = "returned" /\ failure # "none") =>
        /\ result # NoResult
        /\ ObjectKeys(result) = {"directus_files", "directus_users"}
        /\ ObjectKeys(result["directus_files"]) = {"id", "filename_download"}
        /\ ObjectKeys(result["directus_users"]) = {"id", "email"}
        /\ result["directus_files"]["id"].type = "uuid"
        /\ result["directus_files"]["filename_download"].type = "string"
        /\ result["directus_users"]["id"].type = "uuid"
        /\ result["directus_users"]["email"].type = "string"

\* A record raised after other collections had been admitted.
C5_Witness ==
    /\ fetchPc = "returned"
    /\ failure = "scan"
    /\ "a" \in ObjectKeys(scan.schema)
    /\ "a" \notin ObjectKeys(result)

\* --- C6 ------------------------------------------------------------------
\* C6: no accessor raises a transport error; after a failed fetch the cache
\* holds the fallback Schema until the next invalidation, and every accessor
\* call started in that period is served the fallback without a fetch.
C6_FallbackSticks ==
    /\ \A c \in Callers :
          Raised(c) => call[c].ret.error.message \in
                          {"Directus client not initialized", "not found in schema"}
    /\ fallbackLoaded => schemaCache = Loaded(FallbackSchema)
    /\ \A c \in Callers :
          (Completed(c) /\ call[c].afterFailure /\ ~call[c].invalidated) =>
              /\ ~call[c].fetched
              /\ call[c].resolved = Loaded(FallbackSchema)

\* --- C7 ------------------------------------------------------------------
\* C7: while the connection is not initialized the cache stays Empty, no
\* fetch is issued, and every accessor call has failed with the 'not
\* initialized' error without suspending.
C7_NotInitialized ==
    ~globalDirectus =>
        /\ schemaCache = JNull
        /\ fetchCount = 0
        /\ \A c \in Callers :
              /\ pc[c] = "idle"
              /\ call[c].op # "none" =>
                    /\ call[c].ret = RetError(NotInitialized)
                    /\ ~call[c].fetched

\* A getSchema() call failed before the connection was initialized; a later
\* call, once it is, fetched and returned.
C7_Witness ==
    \E c, d \in Callers :
        /\ c # d
        /\ Raised(c)
        /\ call[c].op = "getSchemaLazy"
        /\ call[c].startedEmpty
        /\ ~call[c].clientAtStart
        /\ Returned(d)
        /\ call[d].fetched

\* --- C8 ------------------------------------------------------------------
\* C8 as claimed: collectionExists(name) returns a boolean in every state.
C8_NeverFails ==
    \A c \in Callers :
        (Completed(c) /\ call[c].op = "collectionExists") => Returned(c)

\* C8 as amended: collectionExists(name) returns a boolean unless it is
\* called against an Empty cache with the connection not initialized, where
\* it fails with the 'not initialized' error.
C8_FailsOnlyUninitialized ==
    \A c \in Callers :
        (Completed(c) /\ call[c].op = "collectionExists") =>
            IF call[c].startedEmpty /\ ~call[c].clientAtStart
            THEN call[c].ret = RetError(NotInitialized)
            ELSE Returned(c) /\ call[c].ret.value \in BOOLEAN

\* A collectionExists call failed before the connection was initialized,
\* and the cache is still Empty once it is.
C8_Witness ==
    \E c \in Callers :
        /\ Raised(c)
        /\ call[c].op = "collectionExists"
        /\ call[c].startedEmpty
        /\ ~call[c].clientAtStart
        /\ globalDirectus
        /\ schemaCache = JNull

\* --- C9 ------------------------------------------------------------------
\* C9: getCollectionSchema(name) returns the field map stored under name
\* when name is a key of the resolved Schema, and otherwise fails with the
\* not-found error listing exactly the keys of the resolved Schema.
C9_LookupOrNotFound ==
    \A c \in Callers :
        (/\ Completed(c)
         /\ call[c].op = "getCollectionSchema"
         /\ call[c].resolved # JNull)
        => LET schema == call[c].resolved.schema
               name == call[c].name
           IN IF name \in ObjectKeys(schema)
              THEN call[c].ret = RetValue(schema[name])
              ELSE call[c].ret = RetError(NotFound(name, ObjectKeys(schema)))

\* --- C10 -----------------------------------------------------------------
\* C10: the Schema holds at most maxCollections collections, they are the
\* first maxCollections distinct collections with a record that passes the
\* filters, and a record of such a collection is kept also when it comes
\* after a rejected collection (as long as the field cap allows).
C10_CollectionCap ==
    ScanSucceeding =>
        LET admitted == FirstN(candidateCollections(scanned), maxCollections(config))
        IN /\ Cardinality(ObjectKeys(scan.schema)) <= maxCollections(config)
           /\ ObjectKeys(scan.schema) = admitted
           /\ \A i \in 1..Len(scanned) :
                (/\ passesFilters(scanned[i])
                 /\ scanned[i].collection \in admitted
                 /\ Cardinality({j \in 1..(i - 1) :
                        /\ passesFilters(scanned[j])
                        /\ scanned[j].collection = scanned[i].collection})
                      < maxFieldsPerCollection(config))
                => scanned[i].field \in ObjectKeys(scan.schema[scanned[i].collection])

\* --- C11 -----------------------------------------------------------------
\* The positions of the scanned records of collection c that pass the
\* filters other than the two caps.
survivors(c) ==
    {i \in 1..Len(scanned) : scanned[i].collection = c /\ passesFilters(scanned[i])}

\* The first n of them in scan order.
firstSurvivors(c, n) ==
    {i \in survivors(c) : Cardinality({j \in survivors(c) : j < i}) < n}

\* C11: every collection of the Schema holds at most maxFieldsPerCollection
\* fields, and they are the fields of the first maxFieldsPerCollection
\* records of that collection that pass the other filters, in scan order.
C11_FieldCap ==
    ScanSucceeding =>
        \A c \in ObjectKeys(scan.schema) :
            /\ Cardinality(ObjectKeys(scan.schema[c])) <= maxFieldsPerCollection(config)
            /\ ObjectKeys(scan.schema[c]) =
                  {scanned[i].field :
                      i \in firstSurvivors(c, maxFieldsPerCollection(config))}

\* A collection had more surviving records than the cap and holds only the
\* first-encountered ones.
C11_Witness ==
    /\ ScanSucceeding
    /\ \E c \in ObjectKeys(scan.schema) :
          /\ Cardinality(survivors(c)) > maxFieldsPerCollection(config)
          /\ Cardinality({scanned[i].field : i \in survivors(c)})
                > Cardinality(ObjectKeys(scan.schema[c]))
          /\ scanned[1].collection = c
          /\ scanned[1].field \in ObjectKeys(scan.schema[c])

\* --- C12 -----------------------------------------------------------------
\* The collection names the configuration lists for exclusion.
excludedNames ==
    IF "SCHEMA_EXCLUDE_COLLECTIONS" \in DOMAIN config
    THEN config.SCHEMA_EXCLUDE_COLLECTIONS ELSE {}

\* C12: while the scan succeeds and in the Schema it returns, no collection
\* named in excludeCollections is a key, whatever the caps and wherever its
\* records occur.
C12_ExcludedAbsent ==
    /\ ScanSucceeding =>
          \A c \in excludedNames : c \notin ObjectKeys(scan.schema)
    /\ (fetchPc = "returned" /\ failure = "none") =>
          \A c \in excludedNames : c \notin ObjectKeys(result)

\* A successful fetch returned a Schema although a record of an excluded
\* collection, admissible but for the exclusion, was scanned while neither
\* cap was reached.
C12_Witness ==
    /\ fetchPc = "returned"
    /\ failure = "none"
    /\ "a" \in ObjectKeys(result)
    /\ scan.totalCollections < maxCollections(config)
    /\ \E i \in 1..Len(scanned) :
          /\ scanned[i].collection \in excludedNames
          /\ scanVerdict(EmptyScan, scanned[i], EmptyObject, lookup) = "admit"

\* --- C13 -----------------------------------------------------------------
\* The record is marked system-level and its relation record points to the
\* file-storage or the user-account collection.
pointsToFilesOrUsers(field) ==
    /\ field.collection \in DOMAIN lookup
    /\ field.field \in DOMAIN lookup[field.collection]
    /\ lookup[field.collection][field.field].related_collection
          \in {JStr("directus_files"), JStr("directus_users")}

\* The field of the record is in the Schema.
retained(field) ==
    /\ field.collection \in ObjectKeys(scan.schema)
    /\ field.field \in ObjectKeys(scan.schema[field.collection])

\* Neither the exclusion list nor a cap stood in the way of the record.
unhindered(field) ==
    /\ field.collection \notin excludedNames
    /\ scan.totalCollections < maxCollections(config)
    /\ fieldCountOf(scan.collectionsFieldCount, field.collection)
          < maxFieldsPerCollection(config)

\* A system collection other than the file-storage and user-account ones.
nonPrivileged(name) ==
    startsWithDirectus(name) /\ name \notin {"directus_files", "directus_users"}

\* A system-level record without a file/user relation is never in the Schema.
systemDropped ==
    \A i \in 1..Len(scanned) :
        (scanned[i].system /\ ~pointsToFilesOrUsers(scanned[i])) => ~retained(scanned[i])

\* C13 as claimed: a system-level field whose relation points to the files
\* or users collection is retained (exclusion and caps permitting), and a
\* system-level field with no such relation is dropped.
C13_CarveOutRetained ==
    ScanSucceeding =>
        /\ \A i \in 1..Len(scanned) :
              (/\ scanned[i].system
               /\ pointsToFilesOrUsers(scanned[i])
               /\ unhindered(scanned[i]))
              => retained(scanned[i])
        /\ systemDropped

\* C13 as amended: such a field is retained unless its own collection is a
\* non-privileged system collection or it is a UI-only alias; a system-level
\* field with no such relation is dropped.
C13_CarveOutUnlessSystemCollection ==
    ScanSucceeding =>
        /\ \A i \in 1..Len(scanned) :
              (/\ scanned[i].system
               /\ pointsToFilesOrUsers(scanned[i])
               /\ unhindered(scanned[i]))
              => (retained(scanned[i]) <=>
                    /\ ~nonPrivileged(scanned[i].collection)
                    /\ ~(scanned[i].type = "alias" /\ "no-data" \in scanned[i].special))
        /\ systemDropped

\* A system-level field pointing to the files collection is in the Schema,
\* while a system-level field pointing to the users collection, on a
\* non-privileged system collection, was scanned and is not.
C13_Witness ==
    /\ ScanSucceeding
    /\ \E i, j \in 1..Len(scanned) :
          /\ scanned[i].system
          /\ pointsToFilesOrUsers(scanned[i])
          /\ retained(scanned[i])
          /\ scanned[j].system
          /\ pointsToFilesOrUsers(scanned[j])
          /\ unhindered(scanned[j])
          /\ nonPrivileged(scanned[j].collection)
          /\ ~retained(scanned[j])

\* --- C14 -----------------------------------------------------------------
\* The relation record of the scanned record, if there is one.
hasRelation(field) ==
    /\ field.collection \in DOMAIN lookup
    /\ field.field \in DOMAIN lookup[field.collection]

\* C14: every admitted field whose special markers include m2a has
\* relation_type m2a and, when it has a relation record, a
\* relation_collection equal to that record's allowed-collections list.
C14_M2AShape ==
    ScanSucceeding =>
        \A i \in 1..Len(scanned) :
            ("m2a" \in scanned[i].special /\ retained(scanned[i])) =>
                LET f == scanned[i]
                    sf == scan.schema[f.collection][f.field]
                IN /\ "relation_type" \in DOMAIN sf
                   /\ sf.relation_type = "m2a"
                   /\ hasRelation(f) =>
                         /\ "relation_collection" \in DOMAIN sf
                         /\ sf.relation_collection =
                               lookup[f.collection][f.field].meta.obj.one_allowed_collections

\* --- C15 -----------------------------------------------------------------
\* The outcome of the filters for the i-th scanned record, given the records
\* scanned before it.
verdictAt(i) ==
    scanVerdict(scanFields(EmptyScan, SubSeq(scanned, 1, i - 1), config, lookup),
                scanned[i], config, lookup)

\* C15: after every step of a succeeding scan a collection name is a key of
\* the Schema exactly when one of its records passed all the filters, and no
\* key maps to an empty field map.
C15_KeyIffAdmitted ==
    ScanSucceeding =>
        /\ \A i \in 1..Len(scanned) :
              verdictAt(i) = "admit" => scanned[i].collection \in ObjectKeys(scan.schema)
        /\ \A c \in ObjectKeys(scan.schema) :
              /\ \E i \in 1..Len(scanned) :
                    scanned[i].collection = c /\ verdictAt(i) = "admit"
              /\ ObjectKeys(scan.schema[c]) # {}

\* --- C16 -----------------------------------------------------------------
\* C16: a step of invalidate(), in any state of the cache (Empty, Loaded, a
\* fetch in flight), leaves the slot Empty, issues no fetch and resumes no
\* caller; an invalidate() that directly follows another one changes nothing
\* of the program state.
C16_InvalidateEmpties ==
    [][(nInvalidations' = nInvalidations + 1) =>
          /\ schemaCache' = JNull
          /\ fetchCount' = fetchCount
          /\ pc' = pc
          /\ consecutiveInvalidations > 0 =>
                <<schemaCache, pc, fetchCount, globalDirectus, globalConfig>>'
                    = <<schemaCache, pc, fetchCount, globalDirectus, globalConfig>>]_vars

\* Two invalidations in a row after the cache had been Loaded, with the slot
\* Empty.
C16_Witness ==
    /\ consecutiveInvalidations = 2
    /\ schemaCache = JNull
    /\ \E c \in Callers :
          /\ Returned(c)
          /\ call[c].fetched
          /\ call[c].invalidated
          /\ ~call[c].afterInvalidate

\* --- C17 -----------------------------------------------------------------
\* C17: an accessor called with the cache Loaded issues no fetch, does not
\* suspend and leaves the slot as it is, whether it returns or fails.
C17_LoadedReadOnly ==
    [][(nCalls' = nCalls + 1 /\ schemaCache # JNull) =>
          /\ schemaCache' = schemaCache
          /\ fetchCount' = fetchCount
          /\ pc' = pc]_vars

\* getCollectionSchema failed with the not-found error against a Loaded
\* cache, without a fetch, and the slot still holds the Schema it looked at.
C17_Witness ==
    \E c \in Callers :
        /\ Raised(c)
        /\ call[c].op = "getCollectionSchema"
        /\ ~call[c].startedEmpty
        /\ ~call[c].fetched
        /\ call[c].ret.error.message = "not found in schema"
        /\ schemaCache = call[c].resolved
        /\ fetchCount = 1

\* --- C18 -----------------------------------------------------------------
\* C18: the slot changes only from Empty to Loaded (the write of getSchema on
\* first use) or to Empty (invalidate); a Loaded slot is never given another
\* content.
C18_OnlyFirstUseAndInvalidate ==
    [][(schemaCache' # schemaCache) =>
          \/ schemaCache = JNull /\ schemaCache' # JNull /\ fetchCount > 0
          \/ schemaCache' = JNull /\ nInvalidations' = nInvalidations + 1]_vars

\* --- C19 -----------------------------------------------------------------
\* C19: a create-collection call that ends having created the folder or the
\* collection has invalidated the cache (the slot is Empty, one invalidation
\* more); one that ends on a validation error or a rejected request leaves
\* the slot and the invalidation count as they were; and the next
\* getSchema() call started after a successful creation issues a fetch.
C19_InvalidatesIffCreated ==
    /\ [][(create' # create /\ create'.pc = "idle") =>
             IF create'.outcome = "created"
             THEN schemaCache' = JNull /\ nInvalidations' = nInvalidations + 1
             ELSE schemaCache' = schemaCache /\ nInvalidations' = nInvalidations]_vars
    /\ [][(nCalls' = nCalls + 1 /\ call[Handler].invalidated) =>
             fetchCount' = fetchCount + 1]_vars

\* --- C20 -----------------------------------------------------------------
\* primary_key and required of a SchemaField are absent or true.
flagsAbsentOrTrue(sf) ==
    /\ "primary_key" \in DOMAIN sf => sf.primary_key = TRUE
    /\ "required" \in DOMAIN sf => sf.required = TRUE

\* C20: in the Schema being built and in every Schema returned (the fallback
\* included) primary_key and required are absent or true, and a field of the
\* scan has primary_key (required) exactly when its record is marked primary
\* key (required).
C20_FlagsAbsentOrTrue ==
    /\ \A c \in ObjectKeys(scan.schema) : \A f \in ObjectKeys(scan.schema[c]) :
          flagsAbsentOrTrue(scan.schema[c][f])
    /\ fetchPc = "returned" =>
          \A c \in ObjectKeys(result) : \A f \in ObjectKeys(result[c]) :
              flagsAbsentOrTrue(result[c][f])
    /\ ScanSucceeding =>
          \A i \in 1..Len(scanned) :
              retained(scanned[i]) =>
                  LET sf == scan.schema[scanned[i].collection][scanned[i].field]
                  IN /\ ("primary_key" \in DOMAIN sf) = scanned[i].is_primary_key
                     /\ ("required" \in DOMAIN sf) = scanned[i].required

\* A returned Schema holds a primary-key field that is not required and a
\* required field that is not a primary key.
C20_Witness ==
    /\ fetchPc = "returned"
    /\ failure = "none"
    /\ \E c \in ObjectKeys(result) : \E f, g \in ObjectKeys(result[c]) :
          /\ "primary_key" \in DOMAIN result[c][f]
          /\ "required" \notin DOMAIN result[c][f]
          /\ "required" \in DOMAIN result[c][g]
          /\ "primary_key" \notin DOMAIN result[c][g]

\* --- C21 -----------------------------------------------------------------
\* C21: every admitted relational field that has a relation record stores as
\* relation_meta that record's metadata with its null/undefined members
\* stripped, whatever the relation kind.
C21_RelationMetaStripped ==
    ScanSucceeding =>
        \A i \in 1..Len(scanned) :
            (/\ retained(scanned[i])
             /\ scanned[i].special \cap RelationMarkers # {}
             /\ hasRelation(scanned[i])) =>
                LET f == scanned[i]
                    sf == scan.schema[f.collection][f.field]
                IN /\ "relation_meta" \in DOMAIN sf
                   /\ sf.relation_meta =
                         stripNullUndefined(lookup[f.collection][f.field].meta)

\* --- C22 -----------------------------------------------------------------
\* The i-th scanned record is the last one written to its place in the
\* Schema.
lastWritten(i) ==
    /\ retained(scanned[i])
    /\ \A j \in (i + 1)..Len(scanned) :
          ~(/\ scanned[j].collection = scanned[i].collection
            /\ scanned[j].field = scanned[i].field)

\* C22: among fields without the m2a marker, file gives relation_type file
\* also next to m2o, and files gives files also next to m2m; a field with
\* the m2a marker and a relation record has that record's list of allowed
\* collections as relation_collection, whatever other markers it carries.
C22_MarkerPrecedence ==
    ScanSucceeding =>
        \A i \in 1..Len(scanned) :
            lastWritten(i) =>
                LET f == scanned[i]
                    sp == f.special
                    sf == scan.schema[f.collection][f.field]
                IN /\ ("file" \in sp /\ "m2a" \notin sp) =>
                         ("relation_type" \in DOMAIN sf /\ sf.relation_type = "file")
                   /\ ("files" \in sp /\ sp \subseteq {"files", "m2m"}) =>
                         ("relation_type" \in DOMAIN sf /\ sf.relation_type = "files")
                   /\ ("m2a" \in sp /\ hasRelation(f)) =>
                         /\ "relation_collection" \in DOMAIN sf
                         /\ sf.relation_collection =
                               lookup[f.collection][f.field].meta.obj.one_allowed_collections

\* --- C23 -----------------------------------------------------------------
\* C23: no system collection other than the file-storage and user-account
\* ones is a key of the Schema being built or of a returned Schema, the
\* fallback included.
C23_NoInternalCollections ==
    /\ \A c \in ObjectKeys(scan.schema) : ~nonPrivileged(c)
    /\ fetchPc = "returned" => \A c \in ObjectKeys(result) : ~nonPrivileged(c)

\* A successful fetch returned a Schema with the file-storage collection as
\* a key after scanning, below the caps, a system-level field of another
\* system collection that the file/user carve-out let past the system filter.
C23_Witness ==
    /\ fetchPc = "returned"
    /\ failure = "none"
    /\ "directus_files" \in ObjectKeys(result)
    /\ \E i \in 1..Len(scanned) :
          /\ scanned[i].system
          /\ pointsToFilesOrUsers(scanned[i])
          /\ nonPrivileged(scanned[i].collection)
          /\ unhindered(scanned[i])

\* --- C24 -----------------------------------------------------------------
\* C24: when every awaited remote read settles, a getSchemaLazy call that is
\* suspended in its fetch eventually completes, and a completed call has
\* returned a Schema or raised the initialization error.
C24_CallsComplete ==
    /\ \A c \in Callers : InFlight(c) ~> Completed(c)
    /\ [](\A c \in Callers :
            Completed(c) =>
                \/ Returned(c)
                \/ call[c].ret = RetError(NotInitialized))

\* Every caller has completed a call that fetched while the cache was
\* invalidated under it, and one of the fetches failed.
C24_Witness ==
    /\ \A c \in Callers :
          /\ Returned(c)
          /\ call[c].fetched
          /\ call[c].invalidated
    /\ \E c \in Callers : call[c].fetchResult = Loaded(FallbackSchema)

\* --- C25 -----------------------------------------------------------------
\* The registered tools and the positions of those DISABLE_TOOLS does not
\* name.
registered == toolList(globalConfig)
disabledName(name) ==
    \E i \in 1..Len(globalConfig.DISABLE_TOOLS) : globalConfig.DISABLE_TOOLS[i] = name
kept == {i \in 1..Len(registered) : ~disabledName(registered[i])}

\* C25: availableTools holds exactly the registered tools DISABLE_TOOLS does
\* not name, in registration order, and a tool call finds its tool exactly
\* when the name is registered and not disabled.
C25_GetTools ==
    /\ Len(availableTools) = Cardinality(kept)
    /\ \A i \in kept :
          availableTools[Cardinality({j \in kept : j <= i})] = registered[i]
    /\ request.count > 0 =>
          (request.found <=>
              /\ \E i \in 1..Len(registered) : registered[i] = request.name
              /\ ~disabledName(request.name))

\* A call of a registered tool that DISABLE_TOOLS names was answered without
\* finding it, while an optional tool is registered and available.
C25_Witness ==
    /\ request.pc = "idle"
    /\ request.name = "update-item"
    /\ disabledName("update-item")
    /\ ~request.found
    /\ \E i \in 1..Len(availableTools) : availableTools[i] = "createSystemPrompt"
    /\ Len(availableTools) = Len(registered) - 2

\* --- C29 -----------------------------------------------------------------
\* C29: every answered tool call has a result (nothing is raised to the
\* host); an unknown tool, rejected arguments and a rejecting handler are
\* each answered with isError true and the error's message; only handlers
\* of registered tools that are not disabled have been executed.
C29_HandlerNeverRaises ==
    /\ request.response # NoResponse => "isError" \in DOMAIN request.response
    /\ (request.pc = "idle" /\ request.count > 0) =>
          /\ request.response # NoResponse
          /\ ~request.found =>
                request.response = ToolResult(TRUE, <<"Unknown tool: ", request.name>>)
          /\ (request.found /\ ~request.argsOk) =>
                request.response = ToolResult(TRUE, InvalidArguments)
          /\ (request.found /\ request.argsOk /\ request.outcome.kind # "result") =>
                request.response = ToolResult(TRUE, request.outcome.text)
    /\ \A name \in request.executed :
          /\ \E i \in 1..Len(registered) : registered[i] = name
          /\ ~disabledName(name)

\* The second call has been answered after its handler rejected with the
\* initialization error; no other handler has run, and DISABLE_TOOLS names
\* a registered tool.
C29_Witness ==
    /\ request.pc = "idle"
    /\ request.count = 2
    /\ request.found
    /\ request.argsOk
    /\ request.outcome.kind = "error"
    /\ request.response = ToolResult(TRUE, <<"Directus client not initialized">>)
    /\ request.executed = {request.name}
    /\ disabledName("delete-flow")

\* --- C26 -----------------------------------------------------------------
\* C26: when a fetch completes that was in flight while the cache was
\* invalidated, its Schema is not put in the cache: the slot stays as the
\* invalidation (or a later fetch) left it.
C26_InvalidateNotLost ==
    [][\A c \in Callers :
          (InFlight(c) /\ pc'[c] = "idle" /\ call[c].invalidated) =>
              schemaCache' = schemaCache]_vars

\* --- C27 -----------------------------------------------------------------
\* C27: a scan step whose record one of the six filters skips leaves the
\* Schema, the collection counter and the per-collection counters as they
\* were, and the collection counter equals the number of keys of the Schema.
C27_SkipLeavesState ==
    /\ [][(/\ Len(scanned') = Len(scanned) + 1
           /\ scanVerdict(scan, scanned'[Len(scanned')], config, lookup)
                 \in {"excluded", "maxCollections", "maxFields", "system",
                      "directus", "no-data"})
          => scan' = scan]_vars
    /\ [](scan.totalCollections = Cardinality(ObjectKeys(scan.schema)))

\* A scan admitted a field and then skipped one record at the field cap and
\* one as a system field.
C27_Witness ==
    /\ ScanSucceeding
    /\ Len(scanned) = 3
    /\ verdictAt(1) = "admit"
    /\ verdictAt(2) = "maxFields"
    /\ verdictAt(3) = "system"
    /\ scan.totalCollections = 1
    /\ scan.collectionsFieldCount = (scanned[1].collection :> 1)

\* --- C28 -----------------------------------------------------------------
\* The Schema the item tool's last accessor call resolved to.
itemSchema == call[Handler].resolved.schema

\* C28: an item tool has sent its item request only if its collection is a
\* key of the resolved Schema; a call for a collection that is not a key
\* ends with an error response and no request sent.
C28_ItemRequestOnlyForKnown ==
    (item.tool # "" /\ call[Handler].resolved # JNull) =>
        /\ item.sent => item.collection \in ObjectKeys(itemSchema)
        /\ (item.pc = "idle" /\ item.collection \notin ObjectKeys(itemSchema)) =>
              (item.response = "error" /\ ~item.sent)

\* --- C30 -----------------------------------------------------------------
\* Every validation the claim lists passes for the input of the call.
flowInputValid ==
    LET input == flow.input IN
    /\ input.definitionId = input.flowId
    /\ \E i \in 1..Len(input.collections) : input.collections[i] = input.collection
    /\ Len(input.keys) >= 1 \/ input.requireSelection = "false"
    /\ "list" \in DOMAIN input.fields =>
          \A i \in 1..Len(input.fields.list) :
              input.fields.list[i].required =>
                  /\ "obj" \in DOMAIN input.data
                  /\ input.fields.list[i].field \in ObjectKeys(input.data.obj)

\* C30: the trigger request has been sent only for an input that passes
\* every validation; for any other input the call ended with an error
\* response and no request.
C30_TriggerOnlyWhenValid ==
    flow.called =>
        /\ flow.sent => flowInputValid
        /\ ~flowInputValid => (flow.pc = "idle" /\ flow.response = "error")

====
